---------------------------- MODULE Spec2Model ----------------------------
(***************************************************************************)
(* A model of scripts/build_index.py: the bio paragraph linkifier          *)
(* (render_bio_paragraph_html), the publication folder lookup              *)
(* (find_publication_folder, first_file), the publication article builder  *)
(* (build_publication_article), the social links loader                    *)
(* (load_social_links) and the social navigation (build_social_nav).       *)
(*                                                                         *)
(* A Python str is a sequence of one-character strings.  Indices into a    *)
(* str are Python's: 0-based, and a slice text[a:b] is Slice(text, a, b).  *)
(***************************************************************************)
EXTENDS Integers, Sequences, FiniteSets, TLC

VARIABLES
    pc,                \* where the function under way is
    text,              \* render_bio_paragraph_html: the paragraph
    cursor,            \* render_bio_paragraph_html: cursor
    result_parts,      \* render_bio_paragraph_html: result_parts
    pos,               \* where paren_url.finditer resumes
    trace,             \* the locals of each iteration of the loop so far
    publications_dir,  \* the entries of PUBLICATIONS_DIR, in listing order
    pub_id,            \* find_publication_folder: pub_id
    folder,            \* find_publication_folder: the return value
    row,               \* build_publication_article: row
    author_links,      \* build_publication_article: author_links
    article,           \* build_publication_article: the return value
    rows,              \* load_social_links: the rows of links.csv read so far
    links,             \* load_social_links: links
    nav                \* build_social_nav: the return value

bio_vars == <<text, cursor, result_parts, pos, trace>>

folder_vars == <<publications_dir, pub_id, folder>>

pub_vars == <<row, author_links, article>>

social_vars == <<rows, links, nav>>

vars == <<pc, bio_vars, folder_vars, pub_vars, social_vars>>

\* None, and the value of the variables of a function that is not run.
None == << >>

BioIdle ==
    text = None /\ cursor = 0 /\ result_parts = None /\ pos = 0 /\ trace = None

FolderIdle == publications_dir = None /\ pub_id = None /\ folder = None

PubIdle == row = None /\ author_links = None /\ article = None

SocialIdle == rows = None /\ links = None /\ nav = None

---------------------------------------------------------------------------
(* Python str operations                                                   *)

Max(S) == CHOOSE x \in S : \A y \in S : y <= x

Min(S) == CHOOSE x \in S : \A y \in S : x <= y

\* text[a:b] for 0 <= a, b <= len(text); empty when a >= b.
Slice(s, a, b) == SubSeq(s, a + 1, b)

\* s[i:].startswith(sub)
StartsWithAt(s, sub, i) ==
    /\ i >= 0
    /\ i + Len(sub) <= Len(s)
    /\ Slice(s, i, i + Len(sub)) = sub

\* str.rfind: the highest index at which sub occurs in s, or -1.
rfind(s, sub) ==
    LET I == {i \in 0..(Len(s) - Len(sub)) : StartsWithAt(s, sub, i)}
    IN  IF I = {} THEN -1 ELSE Max(I)

\* sub in s
Contains(s, sub) == \E i \in 0..(Len(s) - Len(sub)) : StartsWithAt(s, sub, i)

\* The characters str.strip() removes and the regex class \s matches.
Whitespace == {" ", "\t", "\n", "\r", "\f"}

\* str.strip()
strip(s) ==
    LET I == {i \in 1..Len(s) : s[i] \notin Whitespace}
    IN  IF I = {} THEN << >> ELSE SubSeq(s, Min(I), Max(I))

RECURSIVE join(_)
\* "".join(parts)
join(parts) ==
    IF parts = << >> THEN << >> ELSE Head(parts) \o join(Tail(parts))

\* html.escape of one character (quote=True, the default).
escape_char(c) ==
    CASE c = "&"  -> <<"&","a","m","p",";">>
      [] c = "<"  -> <<"&","l","t",";">>
      [] c = ">"  -> <<"&","g","t",";">>
      [] c = "\"" -> <<"&","q","u","o","t",";">>
      [] c = "'"  -> <<"&","#","x","2","7",";">>
      [] OTHER    -> <<c>>

RECURSIVE html_escape(_)
\* html.escape(s, quote=True)
html_escape(s) ==
    IF s = << >> THEN << >> ELSE escape_char(Head(s)) \o html_escape(Tail(s))

---------------------------------------------------------------------------
(* render_bio_paragraph_html                                               *)

\* The length of "http://" or "https://" at index j of s, or 0.
SchemeLen(s, j) ==
    IF StartsWithAt(s, <<"h","t","t","p",":","/","/">>, j) THEN 7
    ELSE IF StartsWithAt(s, <<"h","t","t","p","s",":","/","/">>, j) THEN 8
    ELSE 0

\* The first index at or after b at which the run [^)\s]+ stops.
RunEnd(s, b) ==
    LET Stops == {e \in b..(Len(s) - 1) : s[e + 1] = ")" \/ s[e + 1] \in Whitespace}
    IN  IF Stops = {} THEN Len(s) ELSE Min(Stops)

\* paren_url matched at index i of s: m.end(), or -1 when it does not match.
MatchEnd(s, i) ==
    IF i < Len(s) /\ s[i + 1] = "(" /\ SchemeLen(s, i + 1) > 0
    THEN LET b == i + 1 + SchemeLen(s, i + 1)
             e == RunEnd(s, b)
         IN  IF e > b /\ e < Len(s) /\ s[e + 1] = ")" THEN e + 1 ELSE -1
    ELSE -1

\* paren_url.finditer: the start of the first match at or after p, or -1.
NextMatch(s, p) ==
    LET I == {i \in p..(Len(s) - 1) : MatchEnd(s, i) >= 0}
    IN  IF I = {} THEN -1 ELSE Min(I)

connectors ==
    << <<" ","a","t"," ","t","h","e"," ">>, <<" ","f","r","o","m"," ","t","h","e"," ">>, <<" ","i","n"," ","t","h","e"," ">>, <<" ","a","t"," ">>, <<" ","f","r","o","m"," ">>, <<" ","i","n"," ">>,
       <<" ","a","n","d"," ">>, <<" ","o","r"," ">>, <<" ","(">>, <<";"," ">>, <<":"," ">>, <<","," ">>, <<"\n">>, <<"."," ">> >>

\* The variant of Better that lets a later connector win a tie.
BetterOrEqual(idx, split_at) == idx >= split_at

\* if idx > split_at
Better(idx, split_at) == idx > split_at

RECURSIVE FindSplit(_, _, _, _)
\* The loop over connectors from index k on: the final (split_at, split_conn).
FindSplit(abs_left, k, split_at, split_conn) ==
    IF k > Len(connectors)
    THEN [split_at |-> split_at, split_conn |-> split_conn]
    ELSE LET conn == connectors[k]
             idx  == rfind(abs_left, conn)
         IN  IF Better(idx, split_at)
             THEN FindSplit(abs_left, k + 1, idx, conn)
             ELSE FindSplit(abs_left, k + 1, split_at, split_conn)

\* label_start = split_at + len(split_conn) if split_at >= 0 else cursor
LabelStart(s, c, lparen) ==
    LET r == FindSplit(Slice(s, 0, lparen), 1, -1, << >>)
    IN  IF r.split_at >= 0 THEN r.split_at + Len(r.split_conn) ELSE c

\* The anchor an occurrence with a label is replaced by.
Anchor(url, label) ==
    <<"<","a"," ","h","r","e","f","=","\"">> \o html_escape(url) \o <<"\"",">">> \o html_escape(label) \o <<"<","/","a",">">>

\* The variant of UnmodifiedPart that drops the text before the parenthesis.
UnmodifiedPartFromParen(s, c, lparen, mend) == Slice(s, lparen, mend)

\* text[cursor:m.end()], appended for an occurrence whose label is empty.
UnmodifiedPart(s, c, lparen, mend) == Slice(s, c, mend)

\* text[cursor:], appended after the last match.
RestOfText(s, c) == Slice(s, c, Len(s))

---------------------------------------------------------------------------
(* The bio paragraphs the linkifier is run on                              *)

\* The number of fragments a generated paragraph is made of, at most.
MaxFrags == 3

Fragments ==
    { <<"A","b">>, <<" ","a","t"," ">>, <<" ","a","t"," ","t","h","e"," ">>, <<","," ">>, <<"."," ">>, <<"<">>, <<" ","(","h","t","t","p",":","/","/","u",")">>, <<"(","h","t","t","p","s",":","/","/","v",")">> }

RECURSIVE TextsOf(_)
\* The concatenations of at most n fragments.
TextsOf(n) ==
    IF n = 0 THEN {<< >>}
    ELSE LET P == TextsOf(n - 1)
         IN  P \cup {p \o f : p \in P, f \in Fragments}

ExampleInstitute == <<"H","e"," ","s","t","u","d","i","e","d"," ","a","t"," ","t","h","e"," ","E","x","a","m","p","l","e"," ","I","n","s","t","i","t","u","t","e"," ","(","h","t","t","p","s",":","/","/","e","x","a","m","p","l","e",".","o","r","g","/","i","n","s","t",")">>

ExampleBare == <<"(","h","t","t","p","s",":","/","/","e","x","a","m","p","l","e",".","o","r","g",")">>

ExampleTwoRefs == <<"F","o","o"," ","(","h","t","t","p","s",":","/","/","a",")"," ","B","a","r"," ","(","h","t","t","p","s",":","/","/","b",")">>

BioTexts == TextsOf(MaxFrags) \cup {ExampleInstitute, ExampleBare, ExampleTwoRefs}

\* The state on entry to the loop: result_parts = [], cursor = 0.
InitBio ==
    /\ text \in BioTexts
    /\ cursor = 0
    /\ result_parts = << >>
    /\ pos = 0
    /\ trace = << >>
    /\ pc = "loop"
    /\ FolderIdle /\ PubIdle /\ SocialIdle

\* The locals of the loop body for the match at lparen.
Locals(lparen) ==
    LET mend        == MatchEnd(text, lparen)
        url         == Slice(text, lparen + 1, mend - 1)
        label_start == LabelStart(text, cursor, lparen)
        label       == strip(Slice(text, label_start, lparen))
    IN  [lparen |-> lparen, mend |-> mend, url |-> url, cursor |-> cursor,
         label_start |-> label_start, label |-> label,
         nparts |-> Len(result_parts)]

\* One iteration of the loop for a match whose label is empty.
KeepUnmodified ==
    /\ pc = "loop"
    /\ NextMatch(text, pos) >= 0
    /\ LET m == Locals(NextMatch(text, pos))
       IN  /\ m.label = << >>
           /\ result_parts' =
                  Append(result_parts, UnmodifiedPart(text, cursor, m.lparen, m.mend))
           /\ cursor' = m.mend
           /\ pos' = m.mend
           /\ trace' = Append(trace, m)
    /\ UNCHANGED <<text, pc, folder_vars, pub_vars, social_vars>>

\* One iteration of the loop for a match with a label.
Linkify ==
    /\ pc = "loop"
    /\ NextMatch(text, pos) >= 0
    /\ LET m == Locals(NextMatch(text, pos))
       IN  /\ m.label # << >>
           /\ result_parts' =
                  result_parts \o
                      << Slice(text, cursor, m.label_start), Anchor(m.url, m.label) >>
           /\ cursor' = m.mend
           /\ pos' = m.mend
           /\ trace' = Append(trace, m)
    /\ UNCHANGED <<text, pc, folder_vars, pub_vars, social_vars>>

\* After the last match: result_parts.append(text[cursor:]).
FinishBio ==
    /\ pc = "loop"
    /\ NextMatch(text, pos) = -1
    /\ result_parts' = Append(result_parts, RestOfText(text, cursor))
    /\ pc' = "done"
    /\ UNCHANGED <<text, cursor, pos, trace, folder_vars, pub_vars, social_vars>>

NextBio == KeepUnmodified \/ Linkify \/ FinishBio

SpecBio == InitBio /\ [][NextBio]_vars

\* The return value of render_bio_paragraph_html.
Rendered == join(result_parts)

---------------------------------------------------------------------------
(* Claims about render_bio_paragraph_html                                  *)

\* C1 (no URL as visible text), for the occurrences that are rewritten:
\* the visible text of every anchor the linkifier emits contains none of
\* the URLs of the paragraph; a URL occurs in an anchor only as its href.
C1_NoUrlInAnchorText ==
    \A i \in 1..Len(trace) :
        trace[i].label # << >> =>
            \A j \in 1..Len(trace) : ~Contains(trace[i].label, trace[j].url)

\* C2: a paragraph with no parenthesized URL is rendered as its
\* HTML-escaped text ('<', '>' and '&' escaped, the rest unchanged).
C2_NoMatchIsEscaped ==
    (pc = "done" /\ trace = << >>) => Rendered = html_escape(text)

\* The connectors that occur in the text before the opening parenthesis.
Occurring(abs_left) ==
    {k \in 1..Len(connectors) : rfind(abs_left, connectors[k]) >= 0}

\* The connector of C3: the rightmost occurrence with the largest start
\* index, the earlier connector of the list on equal indices.
ChosenConnector(abs_left) ==
    CHOOSE k \in Occurring(abs_left) :
        \A j \in Occurring(abs_left) :
            \/ rfind(abs_left, connectors[k]) > rfind(abs_left, connectors[j])
            \/ /\ rfind(abs_left, connectors[k]) = rfind(abs_left, connectors[j])
               /\ k <= j

\* The label of C3 for the match at lparen with the cursor at c.
ClaimedLabel(c, lparen) ==
    LET abs_left == Slice(text, 0, lparen)
        start == IF Occurring(abs_left) = {} THEN c
                 ELSE LET k == ChosenConnector(abs_left)
                      IN  rfind(abs_left, connectors[k]) + Len(connectors[k])
    IN  strip(Slice(text, start, lparen))

\* C3: the label of every match is the trimmed text between the end of the
\* chosen connector (or the cursor, when no connector occurs) and the
\* opening parenthesis, a match with a label is replaced by an anchor over
\* that label, and the Example Institute paragraph yields the anchor
\* "Example Institute" with href "https://example.org/inst".
C3_LabelAfterChosenConnector ==
    /\ \A i \in 1..Len(trace) :
           LET m == trace[i]
           IN  /\ m.label = ClaimedLabel(m.cursor, m.lparen)
               /\ m.label # << >> =>
                      result_parts[m.nparts + 2] =
                          Anchor(m.url, ClaimedLabel(m.cursor, m.lparen))
    /\ (pc = "done" /\ text = ExampleInstitute) =>
           result_parts =
               << <<"H","e"," ","s","t","u","d","i","e","d"," ","a","t"," ","t","h","e"," ">>,
                  <<"<","a"," ","h","r","e","f","=","\"","h","t","t","p","s",":","/","/","e","x","a","m","p","l","e",".","o","r","g","/","i","n","s","t","\"",">","E","x","a","m","p","l","e"," ","I","n","s","t","i","t","u","t","e","<","/","a",">">>,
                  << >> >>

\* A match whose chosen connector is tied with a later connector of the list.
TiedAt(i) ==
    LET abs_left == Slice(text, 0, trace[i].lparen)
    IN  /\ Occurring(abs_left) # {}
        /\ \E j \in Occurring(abs_left) :
               /\ j # ChosenConnector(abs_left)
               /\ rfind(abs_left, connectors[j]) =
                      rfind(abs_left, connectors[ChosenConnector(abs_left)])

\* Reached: the Example Institute paragraph rendered, its " at the " tied
\* with " at ".
C3_Witness ==
    /\ pc = "done"
    /\ text = ExampleInstitute
    /\ Len(trace) = 1
    /\ TiedAt(1)
    /\ trace[1].label = <<"E","x","a","m","p","l","e"," ","I","n","s","t","i","t","u","t","e">>

\* C4: every match's label starts at or after the cursor the previous match
\* left (label_start >= cursor), so no consumed character is in a later label.
C4_LabelStartsAtOrAfterCursor ==
    \A i \in 1..Len(trace) : trace[i].label_start >= trace[i].cursor

\* The cursor after iteration i of the loop.
CursorAfter(i) == IF i < Len(trace) THEN trace[i + 1].cursor ELSE cursor

\* The number of parts after iteration i of the loop.
PartsAfter(i) ==
    IF i < Len(trace) THEN trace[i + 1].nparts
    ELSE IF pc = "done" THEN Len(result_parts) - 1 ELSE Len(result_parts)

\* C5: a match whose trimmed label is empty is left unmodified: the text
\* from the cursor through the closing parenthesis is the one part emitted
\* for it, the cursor moves to just after the closing parenthesis, the next
\* match starts there or later, and "(https://example.org)" is rendered as
\* itself.
C5_EmptyLabelLeftUnmodified ==
    /\ \A i \in 1..Len(trace) :
           LET m == trace[i]
           IN  m.label = << >> =>
                   /\ result_parts[m.nparts + 1] = Slice(text, m.cursor, m.mend)
                   /\ PartsAfter(i) = m.nparts + 1
                   /\ CursorAfter(i) = m.mend
                   /\ i < Len(trace) => trace[i + 1].lparen >= m.mend
    /\ (pc = "done" /\ text = ExampleBare) => Rendered = ExampleBare

\* Reached: a paragraph rendered in which an unmodified occurrence, with
\* text between the cursor and its parenthesis, is followed by a linkified one.
C5_Witness ==
    /\ pc = "done"
    /\ \E i \in 1..Len(trace) :
           /\ trace[i].label = << >>
           /\ trace[i].cursor < trace[i].lparen
           /\ i < Len(trace)
           /\ trace[i + 1].label # << >>

---------------------------------------------------------------------------
(* find_publication_folder and first_file                                  *)

RECURSIVE GlobMatch(_, _)
\* Whether name matches the one-component glob pattern pat, in which "*"
\* stands for any characters and "?" for one character.
GlobMatch(pat, name) ==
    IF pat = << >> THEN name = << >>
    ELSE IF Head(pat) = "*"
         THEN \/ GlobMatch(Tail(pat), name)
              \/ name # << >> /\ GlobMatch(pat, Tail(name))
    ELSE IF Head(pat) = "?"
         THEN name # << >> /\ GlobMatch(Tail(pat), Tail(name))
    ELSE name # << >> /\ Head(name) = Head(pat) /\ GlobMatch(Tail(pat), Tail(name))

RECURSIVE glob(_, _)
\* The names of entries that match pat, in listing order.
glob(entries, pat) ==
    IF entries = << >> THEN << >>
    ELSE (IF GlobMatch(pat, Head(entries).name) THEN <<Head(entries)>> ELSE << >>)
             \o glob(Tail(entries), pat)

\* The characters of file names, by increasing code point.
CodePoints ==
    << "*", ".", "0", "1", "2", "3", "4", "5", "6", "7", "8", "9", "?", "_",
       "a", "b", "c", "d", "e", "f", "g", "h", "i", "j", "k", "l", "m", "n",
       "o", "p", "q", "r", "s", "t", "u", "v", "w", "x", "y", "z" >>

ord(c) == CHOOSE i \in 1..Len(CodePoints) : CodePoints[i] = c

RECURSIVE StrLess(_, _)
\* a < b for two str.
StrLess(a, b) ==
    IF b = << >> THEN FALSE
    ELSE IF a = << >> THEN TRUE
    ELSE IF Head(a) = Head(b) THEN StrLess(Tail(a), Tail(b))
    ELSE ord(Head(a)) < ord(Head(b))

RECURSIVE Insert(_, _)
\* The sorted sequence s with the entry e put in its place.
Insert(s, e) ==
    IF s = << >> THEN <<e>>
    ELSE IF StrLess(e.name, Head(s).name) THEN <<e>> \o s
    ELSE <<Head(s)>> \o Insert(Tail(s), e)

RECURSIVE sorted(_)
\* sorted(entries), by name.
sorted(entries) ==
    IF entries = << >> THEN << >> ELSE Insert(sorted(Tail(entries)), Head(entries))

\* f"{pub_id}_*"
FolderPattern(id) == id \o <<"_","*">>

\* find_publication_folder(pub_id): the entry found, or None.
find_publication_folder(entries, id) ==
    LET matches == sorted(glob(entries, FolderPattern(id)))
    IN  IF matches # << >> THEN matches[1] ELSE None

\* first_file(folder, pattern): the file found, or None.
first_file(dir, pattern) ==
    LET matches == sorted(glob(dir.files, pattern))
    IN  IF matches # << >> THEN matches[1] ELSE None

\* A folder of PUBLICATIONS_DIR with its files in listing order.
Folder(name, files) == [name |-> name, files |-> files]

\* A file with its content.
File(name, content) == [name |-> name, content |-> content]

\* The number of folders in PUBLICATIONS_DIR, at most.
MaxFolders == 3

FolderNames == { <<"3","_","a","l","p","h","a">>, <<"3","_","b","e","t","a">>, <<"2","_","g","a","m","m","a">>, <<"3","0","_","x">>, <<"3","_">> }

\* The listings of at most n distinct folders, in every order.
RECURSIVE Listings(_)
Listings(n) ==
    IF n = 0 THEN {<< >>}
    ELSE LET P == Listings(n - 1)
         IN  P \cup {Append(p, Folder(f, << >>)) :
                         p \in {q \in P : Len(q) = n - 1},
                         f \in FolderNames}

\* No two entries of a directory have the same name.
DistinctNames(entries) ==
    \A i, j \in 1..Len(entries) : entries[i].name = entries[j].name => i = j

PubIds == { <<"3">>, <<"2">>, <<"3","0">>, <<"7">>, <<"*">>, <<"?">>, << >> }

InitFolder ==
    /\ pc = "start"
    /\ publications_dir \in {l \in Listings(MaxFolders) : DistinctNames(l)}
    /\ pub_id \in PubIds
    /\ folder = None
    /\ BioIdle /\ PubIdle /\ SocialIdle

\* The call find_publication_folder(pub_id).
FindFolder ==
    /\ pc = "start"
    /\ folder' = find_publication_folder(publications_dir, pub_id)
    /\ pc' = "done"
    /\ UNCHANGED <<publications_dir, pub_id, bio_vars, pub_vars, social_vars>>

NextFolder == FindFolder

SpecFolder == InitFolder /\ [][NextFolder]_vars

\* The names of the folders that start with "<id>_".
Prefixed(id) ==
    {publications_dir[i].name : i \in 1..Len(publications_dir)} \cap
        {n \in FolderNames : StartsWithAt(n, id \o <<"_">>, 0)}

\* C6: the folder found is the lexicographically first one whose name
\* starts with "<id>_", whatever the listing order, and none if there is no
\* such folder; for id "3" it is "3_alpha" when that folder exists, and
\* never "30_x".
C6_FirstFolderWithPrefix ==
    pc = "done" =>
        /\ Prefixed(pub_id) = {} => folder = None
        /\ Prefixed(pub_id) # {} =>
               /\ folder # None
               /\ folder.name \in Prefixed(pub_id)
               /\ \A n \in Prefixed(pub_id) : n = folder.name \/ StrLess(folder.name, n)

---------------------------------------------------------------------------
(* paragraphs_from_file                                                    *)

\* str.find: the lowest index at which sub occurs in s, or -1.
find(s, sub) ==
    LET I == {i \in 0..(Len(s) - Len(sub)) : StartsWithAt(s, sub, i)}
    IN  IF I = {} THEN -1 ELSE Min(I)

RECURSIVE replace(_, _, _)
\* s.replace(old, new), for a non-empty old.
replace(s, old, new) ==
    IF s = << >> THEN << >>
    ELSE IF StartsWithAt(s, old, 0)
         THEN new \o replace(Slice(s, Len(old), Len(s)), old, new)
    ELSE <<Head(s)>> \o replace(Tail(s), old, new)

RECURSIVE split(_, _)
\* s.split(sep)
split(s, sep) ==
    IF find(s, sep) = -1 THEN <<s>>
    ELSE <<Slice(s, 0, find(s, sep))>>
             \o split(Slice(s, find(s, sep) + Len(sep), Len(s)), sep)

RECURSIVE StrippedNonEmpty(_)
\* [x.strip() for x in parts if x.strip()]
StrippedNonEmpty(parts) ==
    IF parts = << >> THEN << >>
    ELSE (IF strip(Head(parts)) # << >> THEN <<strip(Head(parts))>> ELSE << >>)
             \o StrippedNonEmpty(Tail(parts))

\* paragraphs_from_file of an existing file with the given content.
paragraphs_from_file(content) ==
    IF strip(content) = << >> THEN << >>
    ELSE StrippedNonEmpty(split(replace(strip(content), <<"\r","\n">>, <<"\n">>), <<"\n","\n">>))

---------------------------------------------------------------------------
(* build_publication_article                                               *)

\* A NavigableString.
Text(s) == [tag |-> "#text", attrs |-> << >>, children |-> << >>, string |-> s]

\* soup.new_tag(name, attrs) with its children appended.
Tag(name, attrs, children) ==
    [tag |-> name, attrs |-> attrs, children |-> children, string |-> << >>]

\* dict.get(key): the value, or None.
get(dict, key) == IF key \in DOMAIN dict THEN dict[key] ELSE None

\* [name.strip() for name in authors.replace(";", ",").split(",") if name.strip()]
AuthorNames(authors) == StrippedNonEmpty(split(replace(authors, <<";">>, <<",">>), <<",">>))

RECURSIVE NameNodes(_, _, _)
\* The loop over enumerate(names) from index idx on: what it appends to meta.
NameNodes(names, idx, table) ==
    IF idx >= Len(names) THEN << >>
    ELSE LET name == names[idx + 1]
             link == get(table, name)
         IN  (IF idx # 0 THEN <<Text(<<","," ">>)>> ELSE << >>)
                 \o (IF link # << >>
                     THEN <<Tag("a", << <<"href", link>> >>, <<Text(name)>>)>>
                     ELSE <<Text(name)>>)
                 \o NameNodes(names, idx + 1, table)

\* The variant of YearSuffix that separates the year also from no authors.
YearSuffixAlwaysSeparated(authors, year) ==
    IF year # << >> THEN <<Text(<<" ","·"," ">> \o year)>> ELSE << >>

\* if authors and year: ... elif year: ...
YearSuffix(authors, year) ==
    IF authors # << >> /\ year # << >> THEN <<Text(<<" ","·"," ">> \o year)>>
    ELSE IF year # << >> THEN <<Text(year)>>
    ELSE << >>

\* The children of the pub-meta paragraph.
MetaChildren(authors, year, table) ==
    (IF authors # << >> THEN NameNodes(AuthorNames(authors), 0, table) ELSE << >>)
        \o YearSuffix(authors, year)

\* The children of the pub-media block.
MediaChildren(r, dir, illustration) ==
    IF illustration # None
    THEN << Tag("img",
                << <<"src", <<"a","s","s","e","t","s","/","p","u","b","l","i","c","a","t","i","o","n","s","/">> \o dir.name \o <<"/">>
                                \o illustration.name>>,
                   <<"alt", <<"V","i","s","u","a","l","i","z","a","t","i","o","n"," ","f","o","r"," ">> \o r.title>> >>,
                << >>) >>
    ELSE << >>

RECURSIVE ParagraphTags(_)
\* One <p> for each paragraph of the abstract.
ParagraphTags(paras) ==
    IF paras = << >> THEN << >>
    ELSE <<Tag("p", << >>, <<Text(Head(paras))>>)>> \o ParagraphTags(Tail(paras))

\* The children of the pub-abstract-body block.
AbstractChildren(dir) ==
    IF dir # None
    THEN LET abstract_path == first_file(dir, <<"*","_","a","b","s","t","r","a","c","t",".","t","x","t">>)
         IN  IF abstract_path # None
             THEN ParagraphTags(paragraphs_from_file(abstract_path.content))
             ELSE << >>
    ELSE << >>

\* if row.get("comments"): the pub-comments paragraph.
CommentsBlock(r) ==
    IF r.comments # << >>
    THEN <<Tag("p", << <<"class", <<"p","u","b","-","c","o","m","m","e","n","t","s">>>> >>, <<Text(r.comments)>>)>>
    ELSE << >>

\* The children of the pub-links block.
LinkAnchors(r) ==
    (IF r.code_link # << >>
     THEN <<Tag("a", << <<"class", <<"p","u","b","-","l","i","n","k">>>>, <<"href", r.code_link>> >>,
                <<Text(<<"[","c","o","d","e","]">>)>>)>>
     ELSE << >>)
    \o
    (IF r.paper_link # << >>
     THEN <<Tag("a", << <<"class", <<"p","u","b","-","l","i","n","k">>>>, <<"href", r.paper_link>> >>,
                <<Text(<<"[","p","a","p","e","r","]">>)>>)>>
     ELSE << >>)

\* The variant of LinksBlock that appends the block also when it is empty.
LinksBlockAlways(r) ==
    <<Tag("div", << <<"class", <<"p","u","b","-","l","i","n","k","s">>>> >>, LinkAnchors(r))>>

\* if links_div.contents: content_div.append(links_div)
LinksBlock(r) ==
    IF LinkAnchors(r) # << >>
    THEN <<Tag("div", << <<"class", <<"p","u","b","-","l","i","n","k","s">>>> >>, LinkAnchors(r))>>
    ELSE << >>

\* build_publication_article(soup, row, author_links)
build_publication_article(r, table, entries) ==
    LET dir          == find_publication_folder(entries, r.publication)
        illustration == IF dir # None THEN first_file(dir, <<"*","_","i","l","l","u","s","t","r","a","t","i","o","n",".","*">>)
                        ELSE None
        media_div    == Tag("div", << <<"class", <<"p","u","b","-","m","e","d","i","a">>>> >>,
                            MediaChildren(r, dir, illustration))
        title        == Tag("h3", << >>, <<Text(r.title)>>)
        meta         == Tag("p", << <<"class", <<"p","u","b","-","m","e","t","a">>>> >>,
                            MetaChildren(r.authors, r.year, table))
        summary      == Tag("summary", << >>, <<Text(<<"A","b","s","t","r","a","c","t">>)>>)
        body         == Tag("div", << <<"class", <<"p","u","b","-","a","b","s","t","r","a","c","t","-","b","o","d","y">>>> >>,
                            AbstractChildren(dir))
        details      == Tag("details", << <<"class", <<"p","u","b","-","a","b","s","t","r","a","c","t">>>> >>,
                            <<summary, body>>)
        content_div  == Tag("div", << <<"class", <<"p","u","b","-","c","o","n","t","e","n","t">>>> >>,
                            <<title, meta, details>> \o CommentsBlock(r)
                                \o LinksBlock(r))
    IN  Tag("article", << <<"class", <<"p","u","b","l","i","c","a","t","i","o","n">>>> >>, <<media_div, content_div>>)

\* A row of publications.csv as load_publication_rows yields it.
Row(publication, title, authors, year, comments, code_link, paper_link) ==
    [publication |-> publication, title |-> title, authors |-> authors,
     year |-> year, comments |-> comments, code_link |-> code_link,
     paper_link |-> paper_link]

\* The call build_publication_article(soup, row, author_links).
BuildArticle ==
    /\ pc = "start"
    /\ article' = build_publication_article(row, author_links, publications_dir)
    /\ pc' = "done"
    /\ UNCHANGED <<row, author_links, publications_dir, pub_id, folder,
                   bio_vars, social_vars>>

NextPub == BuildArticle

\* The number of fragments a generated author list is made of, at most.
MaxAuthorFrags == 3

AuthorFragments == { <<"A","."," ","O","n","e">>, <<"B","."," ","T","w","o">>, <<","," ">>, <<";">>, <<" ">> }

RECURSIVE AuthorListsOf(_)
\* The concatenations of at most n fragments.
AuthorListsOf(n) ==
    IF n = 0 THEN {<< >>}
    ELSE LET P == AuthorListsOf(n - 1)
         IN  P \cup {p \o f : p \in P, f \in AuthorFragments}

\* The author lists of rows: load_publication_rows strips every value.
AuthorLists == {a \in AuthorListsOf(MaxAuthorFrags) : strip(a) = a}

\* The tables load_author_links yields: non-empty names with non-empty URLs.
AuthorTables ==
    { << >>,
      [n \in {<<"A","."," ","O","n","e">>} |-> <<"h","t","t","p","s",":","/","/","o","n","e">>],
      [n \in {<<"B","."," ","T","w","o">>} |-> <<"h","t","t","p","s",":","/","/","t","w","o">>],
      [n \in {<<"A","."," ","O","n","e">>, <<"B","."," ","T","w","o">>} |->
           IF n = <<"A","."," ","O","n","e">> THEN <<"h","t","t","p","s",":","/","/","o","n","e">> ELSE <<"h","t","t","p","s",":","/","/","t","w","o">>] }

\* Rows with every author list, and no folder in PUBLICATIONS_DIR.
InitMeta ==
    /\ pc = "start"
    /\ \E a \in AuthorLists, y \in {<< >>, <<"2","0","2","4">>} :
           row = Row(<<"3">>, <<"T">>, a, y, << >>, << >>, << >>)
    /\ author_links \in AuthorTables
    /\ article = None
    /\ publications_dir = << >>
    /\ pub_id = None /\ folder = None
    /\ BioIdle /\ SocialIdle

SpecMeta == InitMeta /\ [][NextPub]_vars

PublicationDirs ==
    { << >>,
      << Folder(<<"3","_","a","l","p","h","a">>, << >>) >>,
      << Folder(<<"3","_","b","e","t","a">>, << File(<<"b","_","i","l","l","u","s","t","r","a","t","i","o","n",".","s","v","g">>, << >>),
                             File(<<"a","_","i","l","l","u","s","t","r","a","t","i","o","n",".","p","n","g">>, << >>),
                             File(<<"a","_","a","b","s","t","r","a","c","t",".","t","x","t">>, <<"O","n","e",".","\r","\n","\r","\n"," ","T","w","o","."," ","\n","\n","\n">>) >>),
         Folder(<<"3","0","_","x">>, << File(<<"x","_","i","l","l","u","s","t","r","a","t","i","o","n",".","p","n","g">>, << >>) >>) >>,
      << Folder(<<"3","_","a","l","p","h","a">>, << File(<<"a","_","a","b","s","t","r","a","c","t",".","t","x","t">>, <<" ","\n">>) >>) >>,
      << Folder(<<"3","_","a","l","p","h","a">>, << File(<<"a","_","i","l","l","u","s","t","r","a","t","i","o","n",".","p","n","g">>, << >>) >>) >> }

\* Rows with every combination of present and absent optional fields.
InitPub ==
    /\ pc = "start"
    /\ \E p \in {<<"3">>, <<"7">>}, t \in {<< >>, <<"T">>},
          a \in {<< >>, <<"A","."," ","O","n","e",","," ","B","."," ","T","w","o">>}, y \in {<< >>, <<"2","0","2","4">>},
          c \in {<< >>, <<"n","o","t","e">>}, cl \in {<< >>, <<"h","t","t","p","s",":","/","/","c","o","d","e">>},
          pl \in {<< >>, <<"h","t","t","p","s",":","/","/","p","a","p","e","r">>} :
           row = Row(p, t, a, y, c, cl, pl)
    /\ author_links \in {<< >>, [n \in {<<"B","."," ","T","w","o">>} |-> <<"h","t","t","p","s",":","/","/","t","w","o">>]}
    /\ article = None
    /\ publications_dir \in PublicationDirs
    /\ pub_id = None /\ folder = None
    /\ BioIdle /\ SocialIdle

SpecPub == InitPub /\ [][NextPub]_vars

---------------------------------------------------------------------------
(* Claims about build_publication_article                                  *)

\* The pub-meta paragraph of the article built.
MetaOf(a) == a.children[2].children[2]

\* The places of an author list that bound a name: before its first
\* character, every comma and semicolon, and after its last character.
Bounds(authors) ==
    {0, Len(authors) + 1} \cup
        {i \in 1..Len(authors) : authors[i] = "," \/ authors[i] = ";"}

\* The trimmed text between the bound i and the next bound.
NameAfter(authors, i) ==
    strip(SubSeq(authors, i + 1, Min({b \in Bounds(authors) : b > i}) - 1))

\* The bounds followed by a non-empty name.
NameStarts(authors) ==
    {i \in Bounds(authors) \ {Len(authors) + 1} : NameAfter(authors, i) # << >>}

\* The trimmed non-empty names of an author list, in their order.
ClaimedNames(authors) ==
    [k \in 1..Cardinality(NameStarts(authors)) |->
        NameAfter(authors,
                  CHOOSE i \in NameStarts(authors) :
                      Cardinality({j \in NameStarts(authors) : j < i}) = k - 1)]

\* A name as C7 renders it: an anchor iff it is a key of the table.
ClaimedName(name, table) ==
    IF name \in DOMAIN table
    THEN Tag("a", << <<"href", table[name]>> >>, <<Text(name)>>)
    ELSE Text(name)

\* The names of C7 joined by ", ".
ClaimedJoined(names, table) ==
    IF Len(names) = 0 THEN << >>
    ELSE [k \in 1..(2 * Len(names) - 1) |->
             IF k % 2 = 1 THEN ClaimedName(names[(k + 1) \div 2], table)
             ELSE Text(<<","," ">>)]

\* The year suffix of C7.
ClaimedSuffix(authors, year) ==
    CASE authors # << >> /\ year # << >> -> <<Text(<<" ","·"," ">> \o year)>>
      [] authors = << >> /\ year # << >> -> <<Text(year)>>
      [] OTHER -> << >>

\* C7: the meta line is the trimmed non-empty names of the author list in
\* their order, each an anchor iff it is a key of the link table, joined by
\* ", ", followed by " · " + year when the author list and the year are
\* present, the year alone when only the year is, and nothing otherwise;
\* "A. One, B. Two" with year 2024 and a table of "B. Two" alone gives
\* "A. One", ", ", the anchor "B. Two" and " · 2024".
C7_MetaLine ==
    pc = "done" =>
        /\ MetaOf(article).children =
               ClaimedJoined(ClaimedNames(row.authors), author_links)
                   \o ClaimedSuffix(row.authors, row.year)
        /\ (/\ row.authors = <<"A","."," ","O","n","e",","," ","B","."," ","T","w","o">>
            /\ row.year = <<"2","0","2","4">>
            /\ DOMAIN author_links = {<<"B","."," ","T","w","o">>}) =>
               MetaOf(article).children =
                   << Text(<<"A","."," ","O","n","e">>), Text(<<","," ">>),
                      Tag("a", << <<"href", <<"h","t","t","p","s",":","/","/","t","w","o">>>> >>, <<Text(<<"B","."," ","T","w","o">>)>>),
                      Text(<<" ","·"," ","2","0","2","4">>) >>

\* Reached: the meta line of "A. One, B. Two", 2024, with "B. Two" linked.
C7_Witness ==
    /\ pc = "done"
    /\ row.authors = <<"A","."," ","O","n","e",","," ","B","."," ","T","w","o">>
    /\ row.year = <<"2","0","2","4">>
    /\ DOMAIN author_links = {<<"B","."," ","T","w","o">>}
    /\ Len(MetaOf(article).children) = 4

\* The tag and the class of a node.
Kind(node) ==
    <<node.tag>> \o
        (IF \E i \in 1..Len(node.attrs) : node.attrs[i][1] = "class"
         THEN <<(node.attrs[CHOOSE i \in 1..Len(node.attrs) :
                                node.attrs[i][1] = "class"])[2]>>
         ELSE << >>)

\* The kinds of the nodes of a sequence.
Kinds(nodes) == [i \in 1..Len(nodes) |-> Kind(nodes[i])]

\* The text of the anchors of a sequence of nodes.
AnchorTexts(nodes) == [i \in 1..Len(nodes) |-> nodes[i].children[1].string]

\* Whether the row's folder holds an illustration.
IllustrationResolved ==
    LET dir == find_publication_folder(publications_dir, row.publication)
    IN  dir # None /\ first_file(dir, <<"*","_","i","l","l","u","s","t","r","a","t","i","o","n",".","*">>) # None

\* C9: the article is the image block and then the content block of title,
\* meta line, "Abstract" disclosure, the comments paragraph iff the row has
\* comments, and the links block iff the row has a code or a paper link;
\* the image block holds an image iff an illustration was resolved, and the
\* links block holds "[code]" iff there is a code link and then "[paper]"
\* iff there is a paper link.
C9_ArticleStructure ==
    pc = "done" =>
        LET media   == article.children[1]
            content == article.children[2]
            has_links == row.code_link # << >> \/ row.paper_link # << >>
        IN  /\ Kinds(article.children) =
                   << <<"div", <<"p","u","b","-","m","e","d","i","a">>>>, <<"div", <<"p","u","b","-","c","o","n","t","e","n","t">>>> >>
            /\ Kinds(media.children) =
                   (IF IllustrationResolved THEN << <<"img">> >> ELSE << >>)
            /\ Kinds(content.children) =
                   << <<"h3">>, <<"p", <<"p","u","b","-","m","e","t","a">>>>, <<"details", <<"p","u","b","-","a","b","s","t","r","a","c","t">>>> >>
                       \o (IF row.comments # << >>
                           THEN << <<"p", <<"p","u","b","-","c","o","m","m","e","n","t","s">>>> >> ELSE << >>)
                       \o (IF has_links
                           THEN << <<"div", <<"p","u","b","-","l","i","n","k","s">>>> >> ELSE << >>)
            /\ content.children[1].children = <<Text(row.title)>>
            /\ content.children[3].children[1] =
                   Tag("summary", << >>, <<Text(<<"A","b","s","t","r","a","c","t">>)>>)
            /\ row.comments # << >> =>
                   content.children[4].children = <<Text(row.comments)>>
            /\ has_links =>
                   AnchorTexts(content.children[Len(content.children)].children) =
                       (IF row.code_link # << >> THEN <<<<"[","c","o","d","e","]">>>> ELSE << >>)
                           \o (IF row.paper_link # << >> THEN <<<<"[","p","a","p","e","r","]">>>> ELSE << >>)

\* Reached: an article with an image, comments and a paper link but no code
\* link, for a row with no authors and no year.
C9_Witness ==
    /\ pc = "done"
    /\ IllustrationResolved
    /\ row.comments # << >>
    /\ row.code_link = << >>
    /\ row.paper_link # << >>
    /\ row.authors = << >>
    /\ row.year = << >>
    /\ Len(article.children[2].children) = 5

---------------------------------------------------------------------------
(* load_social_links and build_social_nav                                  *)

EMAIL == <<"s","k","o","b","e","l","e","v","@","u","c","h","i","c","a","g","o",".","e","d","u">>

\* {"Email": f"mailto:{EMAIL}"}
DefaultLinks == [l \in {<<"E","m","a","i","l">>} |-> <<"m","a","i","l","t","o",":">> \o EMAIL]

\* The variant of Accepted that takes a row with an empty link.
AcceptedWithEmptyLink(label, href) == label # << >>

\* if label and href
Accepted(label, href) == label # << >> /\ href # << >>

\* The body of the loop over the rows of links.csv, for one row.
StoreRow(table, r) ==
    LET label == strip(r.type)
        href  == strip(r.link)
    IN  IF Accepted(label, href)
        THEN [l \in DOMAIN table \cup {label} |->
                 IF l = label THEN href ELSE table[l]]
        ELSE table

\* The number of rows of links.csv, at most.
MaxRows == 2

\* The values of the columns "type" and "link" of a row, as read.
RowTypes == { << >>, <<"E","m","a","i","l">>, <<"L","i","n","k","e","d","I","n">>, <<" ","C","V"," ">>, <<"G","o","o","g","l","e"," ","S","c","h","o","l","a","r">>, <<"B","l","o","g">> }

RowLinks == { << >>, <<"h","t","t","p","s",":","/","/","u">>, <<" ","h","t","t","p","s",":","/","/","v"," ">> }

InitSocial ==
    /\ pc = "reading"
    /\ rows = << >>
    /\ links = DefaultLinks
    /\ nav = None
    /\ BioIdle /\ FolderIdle /\ PubIdle

\* One iteration of the loop over the rows of links.csv.
ReadRow ==
    /\ pc = "reading"
    /\ Len(rows) < MaxRows
    /\ \E t \in RowTypes, l \in RowLinks :
           LET r == [type |-> t, link |-> l]
           IN  /\ rows' = Append(rows, r)
               /\ links' = StoreRow(links, r)
    /\ UNCHANGED <<pc, nav, bio_vars, folder_vars, pub_vars>>

\* return links, with no row left (or no links.csv).
ReturnLinks ==
    /\ pc = "reading"
    /\ pc' = "loaded"
    /\ UNCHANGED <<rows, links, nav, bio_vars, folder_vars, pub_vars>>

order == << <<"E","m","a","i","l">>, <<"L","i","n","k","e","d","I","n">>, <<"C","V">>, <<"G","o","o","g","l","e"," ","S","c","h","o","l","a","r">> >>

\* The variant of Skipped that skips no label.
SkippedNever(href) == FALSE

\* if not href: continue
Skipped(href) == href = << >>

RECURSIVE NavEntries(_, _)
\* The loop over order from index k on: the anchors appended to nav.
NavEntries(table, k) ==
    IF k > Len(order) THEN << >>
    ELSE LET label == order[k]
             href  == get(table, label)
         IN  (IF Skipped(href) THEN << >>
              ELSE <<Tag("a",
                         << <<"href", href>> >>
                             \o (IF label = <<"C","V">> THEN << <<"download", << >> >> >>
                                 ELSE << >>),
                         <<Text(label)>>)>>)
                 \o NavEntries(table, k + 1)

\* build_social_nav(soup, links)
build_social_nav(table) ==
    Tag("nav", << <<"class", <<"s","o","c","i","a","l","-","l","i","n","k","s">>>> >>, NavEntries(table, 1))

\* The call build_social_nav(soup, load_social_links()).
BuildNav ==
    /\ pc = "loaded"
    /\ nav' = build_social_nav(links)
    /\ pc' = "done"
    /\ UNCHANGED <<rows, links, bio_vars, folder_vars, pub_vars>>

NextSocial == ReadRow \/ ReturnLinks \/ BuildNav

SpecSocial == InitSocial /\ [][NextSocial]_vars

---------------------------------------------------------------------------
(* Claims about the social links                                           *)

\* The rows read so far that carry the label, not empty, with a non-empty
\* link.
RowsFor(label) ==
    {i \in 1..Len(rows) :
        /\ label # << >>
        /\ strip(rows[i].type) = label
        /\ strip(rows[i].link) # << >>}

\* The labels the rows read so far carry.
LabelsRead == {strip(rows[i].type) : i \in 1..Len(rows)}

\* C10: the table always has a non-empty "Email", the default mailto unless
\* a row "Email" with a non-empty link was read; a row with an empty label
\* or link leaves the table as it is; every label holds the link of the last
\* row that carries it with a non-empty link.
C10_SocialLinksTable ==
    /\ <<"E","m","a","i","l">> \in DOMAIN links
    /\ links[<<"E","m","a","i","l">>] # << >>
    /\ RowsFor(<<"E","m","a","i","l">>) = {} => links[<<"E","m","a","i","l">>] = <<"m","a","i","l","t","o",":","s","k","o","b","e","l","e","v","@","u","c","h","i","c","a","g","o",".","e","d","u">>
    /\ \A label \in LabelsRead \cup DOMAIN links :
           IF RowsFor(label) # {}
           THEN /\ label \in DOMAIN links
                /\ links[label] = strip(rows[Max(RowsFor(label))].link)
           ELSE label \in DOMAIN links => label = <<"E","m","a","i","l">>
    /\ << >> \notin DOMAIN links

\* Reached: "Email" overridden by a row, then a row "Email" with an empty
\* link read.
C10_Witness ==
    /\ Len(rows) = 2
    /\ rows[1] = [type |-> <<"E","m","a","i","l">>, link |-> <<" ","h","t","t","p","s",":","/","/","v"," ">>]
    /\ rows[2] = [type |-> <<"E","m","a","i","l">>, link |-> << >>]
    /\ links = [l \in {<<"E","m","a","i","l">>} |-> <<"h","t","t","p","s",":","/","/","v">>]

\* The attribute keys of a node.
AttrKeys(node) == {node.attrs[i][1] : i \in 1..Len(node.attrs)}

\* The value of the href attribute of an anchor.
Href(node) ==
    (node.attrs[CHOOSE i \in 1..Len(node.attrs) : node.attrs[i][1] = "href"])[2]

\* The place of a label in the fixed order, 0 for a label outside it.
Place(label) ==
    IF \E k \in 1..Len(order) : order[k] = label
    THEN CHOOSE k \in 1..Len(order) : order[k] = label
    ELSE 0

\* C8: the navigation has exactly one entry for each label of Email,
\* LinkedIn, CV, Google Scholar that the table holds, in that order, and no
\* other entry; the entry carries the table's link; only the CV entry is a
\* download link; a table of Email and LinkedIn gives Email, then LinkedIn.
C8_SocialNav ==
    pc = "done" =>
        LET entries == nav.children
            labels  == AnchorTexts(entries)
        IN  /\ \A i \in 1..Len(entries) :
                   /\ entries[i].tag = "a"
                   /\ Place(labels[i]) > 0
                   /\ labels[i] \in DOMAIN links
                   /\ Href(entries[i]) = links[labels[i]]
                   /\ ("download" \in AttrKeys(entries[i])) <=> (labels[i] = <<"C","V">>)
            /\ \A i, j \in 1..Len(entries) :
                   i < j => Place(labels[i]) < Place(labels[j])
            /\ \A k \in 1..Len(order) :
                   order[k] \in DOMAIN links =>
                       \E i \in 1..Len(entries) : labels[i] = order[k]
            /\ DOMAIN links = {<<"E","m","a","i","l">>, <<"L","i","n","k","e","d","I","n">>} =>
                   labels = << <<"E","m","a","i","l">>, <<"L","i","n","k","e","d","I","n">> >>

\* Reached: a navigation of Email, LinkedIn and CV built from rows read in
\* another order, with a label outside the fixed order in the table.
C8_Witness ==
    /\ pc = "done"
    /\ DOMAIN links = {<<"E","m","a","i","l">>, <<"C","V">>, <<"B","l","o","g">>}
    /\ strip(rows[1].type) = <<"B","l","o","g">>
    /\ strip(rows[2].type) = <<"C","V">>
    /\ Len(nav.children) = 2

====
